---- MODULE Spec2Model ----
(***************************************************************************)
(* Model of streamlit_app_2.py: the EmberBus review dashboard.             *)
(*                                                                         *)
(* The script loads every "*_deduped.csv" file into one data frame         *)
(* (load_data), then renders one of two pages: "Monthly Ratings" (monthly  *)
(* mean rating per brand, re-indexed to a gap-free month range and         *)
(* forward-filled) or "Management Dashboard" (reviews whose MgmtFlag is    *)
(* "Yes", filtered by a date range).                                       *)
(*                                                                         *)
(* Encoding.  A data frame is [cols, rows]: the set of column names and    *)
(* the sequence of rows, each row a function from cols to cell values.     *)
(* Time is counted in ticks: TicksPerDay ticks make a day, DaysPerMonth    *)
(* days make a month.  A timestamp is a tick number in UTC.  A raw CSV     *)
(* date cell is [ok, local, off]: whether pandas can parse it, the local   *)
(* wall-clock tick it spells and its UTC offset in ticks.  A raw rating    *)
(* cell is [ok, val].  A mean is an exact fraction [num, den] in lowest    *)
(* terms; the missing value of each kind is named below.                   *)
(***************************************************************************)
EXTENDS Integers, Sequences, FiniteSets

VARIABLES files, pc, df_all, page, outcome, monthly_avg, chart_data, from_date, to_date,
          filtered

vars ==
    <<files, pc, df_all, page, outcome, monthly_avg, chart_data, from_date, to_date, filtered>>

(***************************************************************************)
(* Bounds of the model.                                                    *)
(***************************************************************************)
MaxFiles == 2

MaxRows == 2

LastMonth == 2

LastDay == 1

TicksPerDay == 2

DaysPerMonth == 2

TicksPerMonth == TicksPerDay * DaysPerMonth

(***************************************************************************)
(* Missing values: NaT of a datetime column, NaN of a numeric column, NaN  *)
(* of a text column, NaN of a mean.                                        *)
(***************************************************************************)
NaT == -1

NaN == -1

NaNText == "NaN"

NaNAvg == [num |-> 0, den |-> 0]

BadDate == [ok |-> FALSE, local |-> 0, off |-> 0]

BadRating == [ok |-> FALSE, val |-> 0]

GoodDate(t, o) == [ok |-> TRUE, local |-> t, off |-> o]

GoodRating(v) == [ok |-> TRUE, val |-> v]

(***************************************************************************)
(* Sequence helpers.                                                       *)
(***************************************************************************)
RECURSIVE SumSeq(_)
SumSeq(s) == IF s = <<>> THEN 0 ELSE Head(s) + SumSeq(Tail(s))

RECURSIVE GCD(_, _)
GCD(a, b) == IF b = 0 THEN a ELSE GCD(b, a % b)

SetMin(S) == CHOOSE x \in S : \A y \in S : x <= y

SetMax(S) == CHOOSE x \in S : \A y \in S : y <= x

(***************************************************************************)
(* load_data                                                               *)
(***************************************************************************)
EmptyFrame == [cols |-> {}, rows |-> <<>>]

\* a check that forgets the Brand column
Qualifies_NoBrand(df) == "Date" \in df.cols /\ "Rating" \in df.cols

\* line 15, negated: the file has all of Date, Rating and Brand
Qualifies(df) ==
    ~("Date" \notin df.cols \/ "Rating" \notin df.cols \/ "Brand" \notin df.cols)

\* line 17: pd.to_datetime(errors="coerce", utc=True) of one cell
to_datetime(raw) == IF raw.ok THEN raw.local - raw.off ELSE NaT

\* line 18: pd.to_numeric(errors="coerce") of one cell
to_numeric(raw) == IF raw.ok THEN raw.val ELSE NaN

\* lines 17-18 on the whole frame: only the Date and Rating cells change
Coerce(df) ==
    [df EXCEPT !.rows =
        [i \in 1..Len(df.rows) |->
            [c \in df.cols |->
                IF c = "Date" THEN to_datetime(df.rows[i][c])
                ELSE IF c = "Rating" THEN to_numeric(df.rows[i][c])
                ELSE df.rows[i][c]]]]

\* a dropna whose subset forgets Rating
KeepRow_DateOnly(r) == r["Date"] # NaT

\* line 19, one row: neither its Date nor its Rating is missing
KeepRow(r) == r["Date"] # NaT /\ r["Rating"] # NaN

\* line 19: dropna(subset=["Date", "Rating"])
dropna(df) == [df EXCEPT !.rows = SelectSeq(df.rows, KeepRow)]

Reindexed(r, have, cols) == [c \in cols |-> IF c \in have THEN r[c] ELSE NaNText]

\* a concat that leaves out a frame without rows, columns and all
concat_SkipEmpty(a, b) ==
    IF Len(b.rows) = 0 THEN a
    ELSE [cols |-> a.cols \cup b.cols,
          rows |-> [i \in 1..Len(a.rows) |-> Reindexed(a.rows[i], a.cols, a.cols \cup b.cols)]
                   \o [i \in 1..Len(b.rows) |-> Reindexed(b.rows[i], b.cols, a.cols \cup b.cols)]]

\* line 20: pd.concat([a, b], ignore_index=True): union of the columns, the
\* rows of a then the rows of b, a cell of a column the row never had is NaN
concat(a, b) ==
    LET cols == a.cols \cup b.cols
    IN  [cols |-> cols,
         rows |-> [i \in 1..Len(a.rows) |-> Reindexed(a.rows[i], a.cols, cols)]
                  \o [i \in 1..Len(b.rows) |-> Reindexed(b.rows[i], b.cols, cols)]]

\* lines 13-20: the loop over the files, from file k on, acc being df_all
RECURSIVE LoadFrom(_, _, _)
LoadFrom(fs, k, acc) ==
    IF k > Len(fs) THEN acc
    ELSE IF ~Qualifies(fs[k]) THEN LoadFrom(fs, k + 1, acc)
    ELSE LoadFrom(fs, k + 1, concat(acc, dropna(Coerce(fs[k]))))

load_data(fs) == LoadFrom(fs, 1, EmptyFrame)

\* an emptiness test that looks at the columns only
Empty_NoColumns(df) == df.cols = {}

\* DataFrame.empty: some axis has length 0
Empty(df) == df.cols = {} \/ Len(df.rows) = 0

(***************************************************************************)
(* Monthly Ratings page                                                    *)
(***************************************************************************)
\* line 36: .dt.to_period("M").dt.to_timestamp(): the first tick of the month
ToMonth(t) == (t \div TicksPerMonth) * TicksPerMonth

\* the brand names of the model, in the order pandas sorts them
BrandNames == <<"A", "B">>

Frac(n, d) == [num |-> n \div GCD(n, d), den |-> d \div GCD(n, d)]

\* .first() in the place of .mean()
Mean_First(ratings) == Frac(Head(ratings), 1)

\* .mean() of one group: the sum of its ratings over their number
Mean(ratings) == Frac(SumSeq(ratings), Len(ratings))

InGroup(r, b, m) == r["Brand"] = b /\ ToMonth(r["Date"]) = m

GroupRatings(rows, b, m) ==
    LET sel == SelectSeq(rows, LAMBDA r : InGroup(r, b, m))
    IN  [i \in 1..Len(sel) |-> sel[i]["Rating"]]

\* groupby(["Brand", "Month"]) drops the rows whose key is NaN
GroupKeys(rows) ==
    {<<rows[i]["Brand"], ToMonth(rows[i]["Date"])>> :
        i \in {j \in 1..Len(rows) : rows[j]["Brand"] # NaNText}}

\* line 37: groupby(["Brand", "Month"])["Rating"].mean()
groupby_mean(rows) ==
    [k \in GroupKeys(rows) |-> Mean(GroupRatings(rows, k[1], k[2]))]

\* line 38: pivot(index="Month", columns="Brand", values="Rating")
pivot(avg) ==
    [index   |-> {k[2] : k \in DOMAIN avg},
     columns |-> {k[1] : k \in DOMAIN avg},
     cell    |-> [m \in {k[2] : k \in DOMAIN avg}, b \in {k[1] : k \in DOMAIN avg} |->
                    IF <<b, m>> \in DOMAIN avg THEN avg[<<b, m>>] ELSE NaNAvg]]

\* the months the pivot has rows for, without the months between them
full_range_Observed(index) ==
    LET lo == SetMin(index)
        hi == SetMax(index)
    IN  SelectSeq([k \in 1..((hi - lo) \div TicksPerMonth + 1) |-> lo + (k - 1) * TicksPerMonth],
                  LAMBDA m : m \in index)

\* line 41: pd.date_range(start=index.min(), end=index.max(), freq="MS")
full_range(index) ==
    LET lo == SetMin(index)
        hi == SetMax(index)
    IN  [k \in 1..((hi - lo) \div TicksPerMonth + 1) |-> lo + (k - 1) * TicksPerMonth]

\* line 42, reindex(full_range): a month the pivot has no row for is all NaN
Reindex(pv, m, b) == IF m \in pv.index THEN pv.cell[m, b] ELSE NaNAvg

\* a fill that puts zero where the brand has no value
Ffill_Zero(pv, range, b, k) ==
    IF Reindex(pv, range[k], b) # NaNAvg THEN Reindex(pv, range[k], b) ELSE [num |-> 0, den |-> 1]

\* line 42, ffill(): down each brand's column, a NaN takes the value above it
RECURSIVE Ffill(_, _, _, _)
Ffill(pv, range, b, k) ==
    IF Reindex(pv, range[k], b) # NaNAvg THEN Reindex(pv, range[k], b)
    ELSE IF k = 1 THEN NaNAvg
    ELSE Ffill(pv, range, b, k - 1)

\* lines 45-46: melt(id_vars="index"): brand by brand, one row per month
melt(pv, range) ==
    LET brands == SelectSeq(BrandNames, LAMBDA b : b \in pv.columns)
        n == Len(range)
    IN  [j \in 1..(Len(brands) * n) |->
            [Month     |-> range[((j - 1) % n) + 1],
             Brand     |-> brands[((j - 1) \div n) + 1],
             AvgRating |-> Ffill(pv, range, brands[((j - 1) \div n) + 1], ((j - 1) % n) + 1)]]

\* lines 36-46
ChartData(df) ==
    LET pv == pivot(groupby_mean(df.rows))
    IN  melt(pv, full_range(pv.index))

\* line 36 raises KeyError without a Date column, line 41 raises ValueError
\* when the pivot has no row (index.min() is NaT)
ChartRaises(df) == "Date" \notin df.cols \/ GroupKeys(df.rows) = {}

(***************************************************************************)
(* Management Dashboard page                                               *)
(***************************************************************************)
\* a test that takes "no row is flagged" for "no column"
HasMgmtFlag_AnyYes(df) ==
    "MgmtFlag" \in df.cols /\ \E i \in 1..Len(df.rows) : df.rows[i]["MgmtFlag"] = "Yes"

\* line 70
HasMgmtFlag(df) == "MgmtFlag" \in df.cols

\* line 73
Flagged(df) == SelectSeq(df.rows, LAMBDA r : r["MgmtFlag"] = "Yes")

\* .date() of a timestamp, and pd.to_datetime(date): midnight of that day
DateOf(t) == t \div TicksPerDay

Midnight(d) == d * TicksPerDay

\* lines 80-81
min_date(fl) == DateOf(SetMin({fl[i]["Date"] : i \in 1..Len(fl)}))

max_date(fl) == DateOf(SetMax({fl[i]["Date"] : i \in 1..Len(fl)}))

\* line 85
Mask(r, from, to) == r["Date"] >= Midnight(from) /\ r["Date"] <= Midnight(to)

\* line 86
Filter(fl, from, to) == SelectSeq(fl, LAMBDA r : Mask(r, from, to))

(***************************************************************************)
(* Input files.  glob.glob("*_deduped.csv") and pd.read_csv give a list of *)
(* tables; the model starts from every list of at most MaxFiles files and  *)
(* MaxRows rows in all that one of four families holds.                    *)
(* Every file has the Title and Review columns, and their cells name the   *)
(* file and the row they were read from, so that a row of df_all can be    *)
(* traced back to its source row.  Every file is one pd.read_csv reads     *)
(* into a table, and every Brand cell holds a brand name.                  *)
(***************************************************************************)
Mandatory == {"Date", "Rating", "Brand"}

AllCols == Mandatory \cup {"MgmtFlag"}

MkRow(f, i, cols, cell) ==
    [c \in cols \cup {"Title", "Review"} |->
        IF c = "Title" THEN <<"title", f, i>>
        ELSE IF c = "Review" THEN <<"review", f, i>>
        ELSE cell[c]]

MkFile(f, cols, cells) ==
    [cols |-> cols \cup {"Title", "Review"},
     rows |-> [i \in 1..Len(cells) |-> MkRow(f, i, cols, cells[i])]]

\* n files: file f has the columns cs[f] and the cells its owner map gives it
MkFiles(n, cs, cells, owner) ==
    [f \in 1..n |->
        LET idx == SelectSeq([i \in 1..Len(cells) |-> i], LAMBDA i : owner[i] = f)
        IN  MkFile(f, cs[f], [j \in 1..Len(idx) |-> cells[idx[j]]])]

Cells(dates, ratings, brands, flags) ==
    [Date : dates, Rating : ratings, Brand : brands, MgmtFlag : flags]

\* files over every subset of the mandatory columns, cells that parse or not
ColumnFiles ==
    [files   |-> 0..MaxFiles,
     colsets |-> SUBSET Mandatory,
     cellset |-> Cells({BadDate, GoodDate(0, 0)}, {BadRating, GoodRating(1)}, {"A"}, {"No"})]

\* files with or without the MgmtFlag column, with or without Rating
FlagFiles ==
    [files   |-> 1..MaxFiles,
     colsets |-> {AllCols, Mandatory, AllCols \ {"Rating"}, Mandatory \ {"Rating"}},
     cellset |-> Cells({BadDate, GoodDate(0, 0)}, {BadRating, GoodRating(1)}, {"A"}, {"Yes", "No"})]

\* one date in each month, and one whose UTC month is not its local month
MonthDates ==
    {GoodDate(m * TicksPerMonth, 0) : m \in 0..LastMonth} \cup {GoodDate(TicksPerMonth, 1)}

\* complete files whose rows differ in brand, month and rating
SeriesFiles ==
    [files   |-> 1..MaxFiles,
     colsets |-> {AllCols},
     cellset |-> Cells(MonthDates, {GoodRating(1), GoodRating(2)}, {"A", "B"}, {"No"})]

\* the first and the last tick of each day, and one whose UTC day is not
\* its local day
DayDates ==
    UNION {{GoodDate(Midnight(d), 0), GoodDate(Midnight(d + 1) - 1, 0)} : d \in 0..LastDay}
    \cup {GoodDate(Midnight(1), 1)}

\* one complete file whose rows differ in flag and date
FlaggedFiles ==
    [files   |-> {1},
     colsets |-> {AllCols},
     cellset |-> Cells(DayDates, {GoodRating(1)}, {"A"}, {"Yes", "No"})]

Families == {ColumnFiles, FlagFiles, SeriesFiles, FlaggedFiles}

\* the rows of a list of files are dealt to the files in order
Dealt(owner) == \A i \in DOMAIN owner : \A j \in DOMAIN owner : i <= j => owner[i] <= owner[j]

(***************************************************************************)
(* The script.  Every user interaction runs it again from the top;         *)
(* load_data is cached, so the reruns start from the loaded frame.         *)
(***************************************************************************)
NoDate == -1

Init ==
    /\ \E fam \in Families : \E n \in fam.files : \E r \in 0..MaxRows :
       \E cs \in [1..n -> fam.colsets] : \E cells \in [1..r -> fam.cellset] :
       \E owner \in [1..r -> 1..n] :
          /\ Dealt(owner)
          /\ files = MkFiles(n, cs, cells, owner)
    /\ pc = "start"
    /\ df_all = EmptyFrame
    /\ page = "none"
    /\ outcome = "none"
    /\ monthly_avg = <<>>
    /\ chart_data = <<>>
    /\ from_date = NoDate
    /\ to_date = NoDate
    /\ filtered = <<>>

\* line 23
LoadData ==
    /\ pc = "start"
    /\ df_all' = load_data(files)
    /\ pc' = "loaded"
    /\ UNCHANGED <<files, page, outcome, monthly_avg, chart_data, from_date, to_date, filtered>>

Running == pc \in {"loaded", "rendered"}

\* lines 30-34
MonthlyNoData ==
    /\ Running
    /\ Empty(df_all)
    /\ page' = "Monthly Ratings"
    /\ outcome' = "warning"
    /\ monthly_avg' = <<>>
    /\ chart_data' = <<>>
    /\ from_date' = NoDate
    /\ to_date' = NoDate
    /\ filtered' = <<>>
    /\ pc' = "rendered"
    /\ UNCHANGED <<files, df_all>>

\* lines 30-64
MonthlyChart ==
    /\ Running
    /\ ~Empty(df_all)
    /\ page' = "Monthly Ratings"
    /\ IF ChartRaises(df_all)
       THEN outcome' = "exception" /\ monthly_avg' = <<>> /\ chart_data' = <<>>
       ELSE /\ outcome' = "chart"
            /\ monthly_avg' = groupby_mean(df_all.rows)
            /\ chart_data' = ChartData(df_all)
    /\ from_date' = NoDate
    /\ to_date' = NoDate
    /\ filtered' = <<>>
    /\ pc' = "rendered"
    /\ UNCHANGED <<files, df_all>>

\* lines 67-71
MgmtNoColumn ==
    /\ Running
    /\ ~HasMgmtFlag(df_all)
    /\ page' = "Management Dashboard"
    /\ outcome' = "error"
    /\ monthly_avg' = <<>>
    /\ chart_data' = <<>>
    /\ from_date' = NoDate
    /\ to_date' = NoDate
    /\ filtered' = <<>>
    /\ pc' = "rendered"
    /\ UNCHANGED <<files, df_all>>

\* lines 67-76
MgmtNoneFlagged ==
    /\ Running
    /\ HasMgmtFlag(df_all)
    /\ Flagged(df_all) = <<>>
    /\ page' = "Management Dashboard"
    /\ outcome' = "success"
    /\ monthly_avg' = <<>>
    /\ chart_data' = <<>>
    /\ from_date' = NoDate
    /\ to_date' = NoDate
    /\ filtered' = <<>>
    /\ pc' = "rendered"
    /\ UNCHANGED <<files, df_all>>

\* lines 67-98: the two date inputs default to min_date and max_date and
\* accept every date from min_date to max_date
MgmtList ==
    /\ Running
    /\ HasMgmtFlag(df_all)
    /\ Flagged(df_all) # <<>>
    /\ \E from \in min_date(Flagged(df_all))..max_date(Flagged(df_all)) :
       \E to \in min_date(Flagged(df_all))..max_date(Flagged(df_all)) :
          /\ from_date' = from
          /\ to_date' = to
          /\ filtered' = Filter(Flagged(df_all), from, to)
    /\ page' = "Management Dashboard"
    /\ outcome' = "list"
    /\ monthly_avg' = <<>>
    /\ chart_data' = <<>>
    /\ pc' = "rendered"
    /\ UNCHANGED <<files, df_all>>

Next ==
    \/ LoadData
    \/ MonthlyNoData
    \/ MonthlyChart
    \/ MgmtNoColumn
    \/ MgmtNoneFlagged
    \/ MgmtList

Spec == Init /\ [][Next]_vars

(***************************************************************************)
(* Properties.  They are stated over the input files, the loaded frame and *)
(* what the page rendered, with their own reading of "complete file",      *)
(* "parses", "month" and "mean".                                           *)
(***************************************************************************)
Loaded == pc # "start"

FileIds == 1..Len(files)

Complete(f) == Mandatory \subseteq files[f].cols

Parses(raw) == raw["Date"].ok /\ raw["Rating"].ok

\* the rows of df_all that were read from file f
RowsOf(f) == {j \in 1..Len(df_all.rows) : df_all.rows[j]["Title"][2] = f}

\* the rows of df_all that were read from row i of file f
RowsOfCell(f, i) == {j \in RowsOf(f) : df_all.rows[j]["Title"][3] = i}

ParsingRows(f) == {i \in 1..Len(files[f].rows) : Parses(files[f].rows[i])}

\* C1: a file without one of Date, Rating, Brand contributes no row to
\* df_all, and every other file contributes exactly its rows that parse, in
\* their order.
C1_IncompleteFileSkipped ==
    Loaded =>
        \A f \in FileIds :
            IF ~Complete(f) THEN RowsOf(f) = {}
            ELSE /\ Cardinality(RowsOf(f)) = Cardinality(ParsingRows(f))
                 /\ \A i \in ParsingRows(f) : RowsOfCell(f, i) # {}
                 /\ \A j \in RowsOf(f) : \A k \in RowsOf(f) :
                        j < k => df_all.rows[j]["Title"][3] < df_all.rows[k]["Title"][3]

\* C1 witness: a file with rows lacks a mandatory column, another file is
\* complete, and df_all holds rows, all of them from complete files
C1_Witness ==
    /\ Loaded
    /\ \E f \in FileIds : ~Complete(f) /\ Len(files[f].rows) > 0
    /\ \E g \in FileIds : Complete(g) /\ RowsOf(g) # {}
    /\ \A j \in 1..Len(df_all.rows) : Complete(df_all.rows[j]["Title"][2])

\* C2: a row of a complete file is in df_all (once) if and only if its date
\* and its rating both parse, and there its title, review, brand and
\* management flag are the cells of the file.
C2_RowKeptIffParses ==
    Loaded =>
        \A f \in FileIds : Complete(f) =>
            \A i \in 1..Len(files[f].rows) :
                LET raw == files[f].rows[i]
                    hits == {j \in 1..Len(df_all.rows) : df_all.rows[j]["Title"] = raw["Title"]}
                IN  IF Parses(raw)
                    THEN /\ Cardinality(hits) = 1
                         /\ \A j \in hits :
                              /\ df_all.rows[j]["Review"] = raw["Review"]
                              /\ df_all.rows[j]["Brand"] = raw["Brand"]
                              /\ "MgmtFlag" \in files[f].cols =>
                                    df_all.rows[j]["MgmtFlag"] = raw["MgmtFlag"]
                    ELSE hits = {}

\* C2 witness: a complete file with a row that parses and a row that does
\* not; df_all holds the first and not the second
C2_Witness ==
    /\ Loaded
    /\ \E f \in FileIds :
        /\ Complete(f)
        /\ "MgmtFlag" \in files[f].cols
        /\ \E i \in 1..Len(files[f].rows) : Parses(files[f].rows[i]) /\ RowsOfCell(f, i) # {}
        /\ \E i \in 1..Len(files[f].rows) : ~Parses(files[f].rows[i]) /\ RowsOfCell(f, i) = {}

\* C3: when no file has all three mandatory columns, df_all has no row, no
\* exception is raised, and the Monthly Ratings page shows the warning and no
\* chart.
C3_NoCompleteFileNoData ==
    (\A f \in FileIds : ~Complete(f)) =>
        /\ Len(df_all.rows) = 0
        /\ outcome # "exception"
        /\ page = "Monthly Ratings" => outcome = "warning" /\ chart_data = <<>>

\* C3 witness: files with rows, none complete, and the warning shown
C3_Witness ==
    /\ FileIds # {}
    /\ \A f \in FileIds : ~Complete(f) /\ Len(files[f].rows) > 0
    /\ page = "Monthly Ratings"
    /\ outcome = "warning"

\* C4 as claimed: the Monthly Ratings page on a dataset without rows ends in
\* a designated precondition error.
C4_AsClaimed ==
    (page = "Monthly Ratings" /\ Len(df_all.rows) = 0) => outcome = "precondition error"

\* C4 amended: the Monthly Ratings page shows the warning exactly when the
\* dataset has no row; then nothing is aggregated, and no exception is
\* raised on this page.
C4_EmptyDatasetWarned ==
    page = "Monthly Ratings" =>
        /\ outcome = "warning" <=> Len(df_all.rows) = 0
        /\ Len(df_all.rows) = 0 => monthly_avg = <<>> /\ chart_data = <<>>
        /\ outcome # "exception"

\* C4 witness: a complete file all of whose rows were dropped, and the warning
C4_Witness ==
    /\ page = "Monthly Ratings"
    /\ outcome = "warning"
    /\ \E f \in FileIds : Complete(f) /\ Len(files[f].rows) > 0
    /\ Len(df_all.rows) = 0

\* C5: on the Management Dashboard, no MgmtFlag column in any file gives the
\* error, and a dataset with the column and no row equal to "Yes" gives the
\* success message, never the error.
C5_MissingFlagColumnDistinct ==
    page = "Management Dashboard" =>
        /\ (\A f \in FileIds : "MgmtFlag" \notin files[f].cols) => outcome = "error"
        /\ ("MgmtFlag" \in df_all.cols
            /\ \A j \in 1..Len(df_all.rows) : df_all.rows[j]["MgmtFlag"] # "Yes")
           => outcome = "success"

\* C5 witness: the dataset has the column and rows, none flagged, and the
\* success message is shown
C5_Witness ==
    /\ page = "Management Dashboard"
    /\ "MgmtFlag" \in df_all.cols
    /\ Len(df_all.rows) > 0
    /\ outcome = "success"

\* the number of the calendar month of a timestamp
MonthNo(t) == t \div (TicksPerDay * DaysPerMonth)

RowIds == 1..Len(df_all.rows)

BrandsSeen == {df_all.rows[j]["Brand"] : j \in RowIds}

MonthsSeen == {MonthNo(df_all.rows[j]["Date"]) : j \in RowIds}

\* the records of brand b in month number m
Records(b, m) ==
    {j \in RowIds : df_all.rows[j]["Brand"] = b /\ MonthNo(df_all.rows[j]["Date"]) = m}

RECURSIVE RatingSum(_)
RatingSum(J) ==
    IF J = {} THEN 0
    ELSE LET j == CHOOSE x \in J : TRUE
         IN  df_all.rows[j]["Rating"] + RatingSum(J \ {j})

\* v is the mean rating of the records J
IsMeanOf(v, J) == v.den > 0 /\ v.num * Cardinality(J) = RatingSum(J) * v.den

\* the rows of chart_data for brand b and month number m
ChartRows(b, m) ==
    {j \in 1..Len(chart_data) :
        chart_data[j].Brand = b /\ chart_data[j].Month = m * TicksPerDay * DaysPerMonth}

GlobalMonths == SetMin(MonthsSeen)..SetMax(MonthsSeen)

\* C6: a dataset with rows is charted, and chart_data has one row for each
\* brand and each month from the earliest to the latest month of the whole
\* dataset, and no other row.
C6_DenseRowCount ==
    (page = "Monthly Ratings" /\ Len(df_all.rows) > 0) =>
        /\ outcome = "chart"
        /\ Len(chart_data) = Cardinality(GlobalMonths) * Cardinality(BrandsSeen)
        /\ \A b \in BrandsSeen : \A m \in GlobalMonths : Cardinality(ChartRows(b, m)) = 1

\* C6 witness: two brands, one of them seen in fewer months than the range
C6_Witness ==
    /\ outcome = "chart"
    /\ Cardinality(BrandsSeen) = 2
    /\ \E b \in BrandsSeen : \E m \in GlobalMonths : Records(b, m) = {} /\ ChartRows(b, m) # {}
    /\ \E b \in BrandsSeen : Records(b, SetMin(MonthsSeen)) = {}

\* C7: the charted value of a brand in a month is the mean of its records of
\* that month, or else of its latest earlier month with records, or else
\* missing.
C7_ForwardFill ==
    outcome = "chart" =>
        \A b \in BrandsSeen : \A m \in GlobalMonths : \A j \in ChartRows(b, m) :
            LET earlier == {k \in GlobalMonths : k <= m /\ Records(b, k) # {}}
            IN  IF earlier = {} THEN chart_data[j].AvgRating = NaNAvg
                ELSE IsMeanOf(chart_data[j].AvgRating, Records(b, SetMax(earlier)))

\* C7 witness: a brand with records in one month and in the month after the
\* next, of different means, and the value of the month between them charted
C7_Witness ==
    /\ outcome = "chart"
    /\ \E b \in BrandsSeen : \E m \in GlobalMonths :
        /\ Records(b, m) # {}
        /\ Records(b, m + 1) = {}
        /\ Records(b, m + 2) # {}
        /\ \E j \in ChartRows(b, m + 1) : \E k \in ChartRows(b, m + 2) :
              /\ chart_data[j].AvgRating # NaNAvg
              /\ chart_data[j].AvgRating # chart_data[k].AvgRating

Permuted(rows, p) == [i \in 1..Len(rows) |-> rows[p[i]]]

Bijections(n) == {p \in [1..n -> 1..n] : \A i \in 1..n : \E j \in 1..n : p[j] = i}

\* C8: the monthly averages have one entry for each brand and month with
\* records, its value the mean over all of those records, and every
\* reordering of the rows of the dataset gives the same averages.
C8_MeanOrderIndependent ==
    outcome = "chart" =>
        /\ DOMAIN monthly_avg =
              {<<x[1], x[2] * TicksPerDay * DaysPerMonth>> :
                  x \in {y \in BrandsSeen \X MonthsSeen : Records(y[1], y[2]) # {}}}
        /\ \A b \in BrandsSeen : \A m \in MonthsSeen :
              Records(b, m) # {} =>
                  IsMeanOf(monthly_avg[<<b, m * TicksPerDay * DaysPerMonth>>], Records(b, m))
        /\ \A p \in Bijections(Len(df_all.rows)) :
              groupby_mean(Permuted(df_all.rows, p)) = monthly_avg

\* C8 witness: two records of different ratings in one brand and month
C8_Witness ==
    /\ outcome = "chart"
    /\ \E b \in BrandsSeen : \E m \in MonthsSeen :
          \E i \in Records(b, m) : \E j \in Records(b, m) :
              df_all.rows[i]["Rating"] # df_all.rows[j]["Rating"]

\* C9: the reviews listed are the flagged reviews whose calendar date is from
\* from_date to to_date, both included.
C9_RangeInclusive ==
    outcome = "list" =>
        filtered = SelectSeq(Flagged(df_all),
                             LAMBDA r : from_date <= r["Date"] \div TicksPerDay
                                        /\ r["Date"] \div TicksPerDay <= to_date)

\* C10 as claimed: when some input file has a MgmtFlag column, the Management
\* Dashboard shows the list or the success message.
C10_AsClaimed ==
    (page = "Management Dashboard" /\ \E f \in FileIds : "MgmtFlag" \in files[f].cols)
        => outcome \in {"list", "success"}

\* C10 amended: the Management Dashboard shows the error exactly when no file
\* with all three mandatory columns has a MgmtFlag column.
C10_ErrorIffNoCompleteFileHasFlag ==
    page = "Management Dashboard" =>
        /\ outcome \in {"error", "list", "success"}
        /\ outcome = "error" <=>
              \A f \in FileIds : Complete(f) => "MgmtFlag" \notin files[f].cols

\* C10 witness: a complete file with the column, every row of it dropped, and
\* the success message
C10_Witness ==
    /\ page = "Management Dashboard"
    /\ outcome = "success"
    /\ Len(df_all.rows) = 0
    /\ \E f \in FileIds : Complete(f) /\ "MgmtFlag" \in files[f].cols /\ Len(files[f].rows) > 0

====
